---- MODULE Spec2Model ----
(***************************************************************************)
(* Model of the voice-annotator fusion pipeline:                           *)
(*   02_vad_webrtc.py  (frame flags -> VoiceSegments)                      *)
(*   05_disfluency.py  (detectors + merge)  -> events                      *)
(*   06_merger.py      (transcript reconstructor) -> annotated lines       *)
(*   ml_prep_split.py  (time-slice exporter) -> N-line file                *)
(*                                                                         *)
(* Times are integers in centiseconds (0.01 s), jitter in thousandths; the  *)
(* frame times of the VAD stage are in tenths of a millisecond.            *)
(* Text is a sequence of one-character strings, so that lower(), strip(),  *)
(* split() and the f-string formats are computed, not assumed.             *)
(***************************************************************************)
EXTENDS Integers, Sequences, FiniteSets, TLC

VARIABLES align_csv, vad_csv, prosody_csv, n_slices,
          pc, events, events_sorted, lines, ml_file,
          speech_flags, segments

vars == <<align_csv, vad_csv, prosody_csv, n_slices,
          pc, events, events_sorted, lines, ml_file,
          speech_flags, segments>>

(***************************************************************************)
(* Bounds of the model                                                     *)
(***************************************************************************)
MaxWords == 2
MaxSegs == 2
MaxN == 3
MaxWordsW == 3
MaxPros == 3
MaxFrames == 4

(***************************************************************************)
(* Optional numbers: Python's None, a float, float("nan"), float("inf")    *)
(***************************************************************************)
None == [k |-> "none", v |-> 0]
NaN == [k |-> "nan", v |-> 0]
Inf == [k |-> "inf", v |-> 0]
Num(x) == [k |-> "num", v |-> x]
IsNum(o) == o.k = "num"

\* A CSV cell: a decimal number, or one of the texts the loaders single out,
\* or text that float() rejects.
CellEmpty == [k |-> "empty", v |-> 0]
CellNone == [k |-> "None", v |-> 0]
CellNan == [k |-> "nanstr", v |-> 0]
CellJunk == [k |-> "junk", v |-> 0]

(***************************************************************************)
(* Text                                                                    *)
(***************************************************************************)
UpperAlpha == <<"A","B","C","D","E","F","G","H","I","J","K","L","M",
                "N","O","P","Q","R","S","T","U","V","W","X","Y","Z">>
LowerAlpha == <<"a","b","c","d","e","f","g","h","i","j","k","l","m",
                "n","o","p","q","r","s","t","u","v","w","x","y","z">>
DigitChars == <<"0","1","2","3","4","5","6","7","8","9">>

Range(s) == {s[i] : i \in 1..Len(s)}

\* the lower-case letter of every upper-case one
LowerOf ==
    [c \in Range(UpperAlpha) |->
        LowerAlpha[CHOOSE i \in 1..Len(UpperAlpha) : UpperAlpha[i] = c]]

\* str.lower() on one character
lower_char(c) == IF c \in DOMAIN LowerOf THEN LowerOf[c] ELSE c

\* str.lower()
lower(s) == [i \in 1..Len(s) |-> lower_char(s[i])]

is_space(c) == c \in {" ", "\t"}

RECURSIVE lstrip(_)
lstrip(s) == IF s # <<>> /\ is_space(Head(s)) THEN lstrip(Tail(s)) ELSE s

RECURSIVE rstrip(_)
rstrip(s) ==
    IF s # <<>> /\ is_space(s[Len(s)]) THEN rstrip(SubSeq(s, 1, Len(s) - 1)) ELSE s

\* str.strip()
strip(s) == rstrip(lstrip(s))

AlnumChars == Range(UpperAlpha) \cup Range(LowerAlpha) \cup Range(DigitChars)

\* str.isalnum() on one character
isalnum(c) == c \in AlnumChars

\* sep.join(parts) for sequences of characters
RECURSIVE join(_, _)
join(sep, parts) ==
    IF parts = <<>> THEN <<>>
    ELSE IF Len(parts) = 1 THEN parts[1]
    ELSE parts[1] \o sep \o join(sep, Tail(parts))

\* s.split(sep) for a one-character separator: always at least one part
RECURSIVE split_on(_, _, _)
split_on(s, sep, cur) ==
    IF s = <<>> THEN <<cur>>
    ELSE IF Head(s) = sep THEN <<cur>> \o split_on(Tail(s), sep, <<>>)
    ELSE split_on(Tail(s), sep, Append(cur, Head(s)))

\* the first position at or after i that is in the set J of positions of s
\* (Len(s) + 1 when there is none)
first_from(s, i, J) ==
    IF \E j \in J : j >= i
    THEN CHOOSE j \in J : j >= i /\ \A h \in J : h >= i => j <= h
    ELSE Len(s) + 1

spaces(s) == {j \in 1..Len(s) : is_space(s[j])}

non_spaces(s) == {j \in 1..Len(s) : ~is_space(s[j])}

\* s.split(): maximal runs of non-whitespace characters, from position i on
RECURSIVE split_ws_from(_, _)
split_ws_from(s, i) ==
    LET a == first_from(s, i, non_spaces(s))
        b == first_from(s, a, spaces(s))
    IN IF a > Len(s) THEN <<>>
       ELSE <<SubSeq(s, a, b - 1)>> \o split_ws_from(s, b)

split_ws(s) == split_ws_from(s, 1)

\* decimal digits of a natural number
RECURSIVE nat_str(_)
nat_str(x) ==
    IF x < 10 THEN <<DigitChars[x + 1]>>
    ELSE nat_str(x \div 10) \o <<DigitChars[(x % 10) + 1]>>

\* f"{x:.2f}" for x >= 0 given in centiseconds
fmt_2f(x) ==
    nat_str(x \div 100) \o <<".">> \o
    <<DigitChars[((x % 100) \div 10) + 1], DigitChars[(x % 10) + 1]>>

RECURSIVE zero_pad(_, _)
zero_pad(s, width) == IF Len(s) >= width THEN s ELSE zero_pad(<<"0">> \o s, width)

\* f"{x:06.2f}" for x >= 0 given in centiseconds
fmt_06_2f(x) == zero_pad(fmt_2f(x), 6)

(***************************************************************************)
(* Token literals                                                          *)
(***************************************************************************)
TokPausePrefix == <<"/","p","a","u","s","e","_">>
TokPauseSuffix == <<"s","/">>
TokFillerPrefix == <<"/","f","i","l","l","e","r","_">>
TokRepeatPrefix == <<"/","r","e","p","e","a","t","_","w","o","r","d",":">>
TokStutterPrefix == <<"/","s","t","u","t","t","e","r",":">>
TokCutoff == <<"/","c","u","t","o","f","f","/">>
TokTremor == <<"/","t","r","e","m","o","r","/">>

(***************************************************************************)
(* Thresholds of 05_disfluency.py (centiseconds; jitter in thousandths)    *)
(***************************************************************************)
min_pause == 15
max_gap == 60
cutoff_min_dur == 2
jitter_thresh == 15

filler_set == {<<"u","h">>, <<"u","m">>, <<"u","h","h">>, <<"u","m","m">>, <<"h","m","m">>, <<"m","m">>}

(***************************************************************************)
(* Input adapters of 05_disfluency.py                                      *)
(***************************************************************************)
\* float(cell) if cell not in (None, "", "None", "nan") else None; a
\* conversion error gives None.
parse_time(cell) == IF cell.k = "num" THEN Num(cell.v) ELSE None

load_alignment(rows) ==
    [i \in 1..Len(rows) |->
        [word |-> rows[i].word,
         start |-> parse_time(rows[i].start),
         end |-> parse_time(rows[i].end)]]

\* a missing file gives the empty list
load_vad(file) == IF file.exists THEN file.rows ELSE <<>>

\* a missing file gives the empty map; rows are keyed 0, 1, 2, ... in file
\* order (element i of the sequence is the row of key i-1)
load_prosody(file) == IF file.exists THEN file.rows ELSE <<>>

\* x or 0.0 for an optional number
or_zero(o) == IF IsNum(o) THEN o.v ELSE 0

(***************************************************************************)
(* Events.  Every event carries all keys; a key the code does not set is   *)
(* None, which is what dict.get returns for it.                            *)
(***************************************************************************)
word_event(type, i, token) ==
    [type |-> type, word_idx |-> Num(i), token |-> token,
     start |-> None, duration |-> None, insert_after_word_idx |-> None]

pause_event(start, duration, token, insert_after) ==
    [type |-> "pause", word_idx |-> None, token |-> token,
     start |-> Num(start), duration |-> Num(duration),
     insert_after_word_idx |-> insert_after]

(***************************************************************************)
(* Detectors                                                               *)
(***************************************************************************)
\* the test with the boundary left out
is_pause_strict(seg) == ~seg.is_speech /\ (seg.end - seg.start) > min_pause

\* the test of one VAD segment
is_pause(seg) == ~seg.is_speech /\ (seg.end - seg.start) >= min_pause

RECURSIVE detect_pauses_from_vad(_)
detect_pauses_from_vad(vad_segments) ==
    IF vad_segments = <<>> THEN <<>>
    ELSE LET seg == Head(vad_segments)
         IN (IF is_pause(seg)
             THEN <<[start |-> seg.start, duration |-> seg.end - seg.start]>>
             ELSE <<>>)
            \o detect_pauses_from_vad(Tail(vad_segments))

\* the test with the boundary left out
is_repeat_strict(alignment_rows, i) ==
    LET w_prev == lower(strip(alignment_rows[i-1].word))
        w_cur == lower(strip(alignment_rows[i].word))
        s_prev == or_zero(alignment_rows[i-1].start)
        s_cur == or_zero(alignment_rows[i].start)
        gap == s_cur - s_prev
    IN w_prev # <<>> /\ w_prev = w_cur /\ gap < max_gap

\* the test of the adjacent pair (i-1, i), i being 1-based position >= 2
is_repeat(alignment_rows, i) ==
    LET w_prev == lower(strip(alignment_rows[i-1].word))
        w_cur == lower(strip(alignment_rows[i].word))
        s_prev == or_zero(alignment_rows[i-1].start)
        s_cur == or_zero(alignment_rows[i].start)
        gap == s_cur - s_prev
    IN w_prev # <<>> /\ w_prev = w_cur /\ gap <= max_gap

RECURSIVE detect_repeat_from(_, _)
detect_repeat_from(alignment_rows, i) ==
    IF i > Len(alignment_rows) THEN <<>>
    ELSE LET w == lower(strip(alignment_rows[i].word))
         IN (IF is_repeat(alignment_rows, i)
             THEN <<word_event("repeat_word", i - 1,
                               TokRepeatPrefix \o w \o <<"-">> \o w \o <<"/">>)>>
             ELSE <<>>)
            \o detect_repeat_from(alignment_rows, i + 1)

detect_repeat_words(alignment_rows) == detect_repeat_from(alignment_rows, 2)

\* the test on the text as written
is_filler_raw(row) == row.word \in filler_set

is_filler(row) == lower(strip(row.word)) \in filler_set

RECURSIVE detect_fillers_from(_, _)
detect_fillers_from(alignment_rows, i) ==
    IF i > Len(alignment_rows) THEN <<>>
    ELSE LET w == lower(strip(alignment_rows[i].word))
         IN (IF is_filler(alignment_rows[i])
             THEN <<word_event("filler", i - 1, TokFillerPrefix \o w \o <<"/">>)>>
             ELSE <<>>)
            \o detect_fillers_from(alignment_rows, i + 1)

detect_fillers(alignment_rows) == detect_fillers_from(alignment_rows, 1)

\* the test with the boundary taken in
is_cutoff_le(row) ==
    \/ ~IsNum(row.end)
    \/ ~IsNum(row.start)
    \/ (row.end.v - row.start.v) <= cutoff_min_dur

\* end is None or start is None or (float(end) - float(start)) < 0.02
is_cutoff(row) ==
    \/ ~IsNum(row.end)
    \/ ~IsNum(row.start)
    \/ (row.end.v - row.start.v) < cutoff_min_dur

RECURSIVE detect_cutoffs_from(_, _)
detect_cutoffs_from(alignment_rows, i) ==
    IF i > Len(alignment_rows) THEN <<>>
    ELSE (IF is_cutoff(alignment_rows[i])
          THEN <<word_event("cutoff", i - 1, TokCutoff)>>
          ELSE <<>>)
         \o detect_cutoffs_from(alignment_rows, i + 1)

detect_cutoffs(alignment_rows) == detect_cutoffs_from(alignment_rows, 1)

\* the test with the case left as written
is_stutter_case(row) ==
    /\ "-" \in Range(row.word)
    /\ LET parts == split_on(row.word, "-", <<>>)
       IN Len(parts) >= 2 /\ strip(parts[1]) = strip(parts[2])

\* "-" in w, and the first two parts of w.split("-") equal after strip().lower()
is_stutter(row) ==
    /\ "-" \in Range(row.word)
    /\ LET parts == split_on(row.word, "-", <<>>)
       IN Len(parts) >= 2 /\ lower(strip(parts[1])) = lower(strip(parts[2]))

RECURSIVE detect_stutter_from(_, _)
detect_stutter_from(alignment_rows, i) ==
    IF i > Len(alignment_rows) THEN <<>>
    ELSE (IF is_stutter(alignment_rows[i])
          THEN LET parts == split_on(alignment_rows[i].word, "-", <<>>)
               IN <<word_event("stutter", i - 1,
                      TokStutterPrefix \o parts[1] \o <<"-">> \o parts[2] \o <<"/">>)>>
          ELSE <<>>)
         \o detect_stutter_from(alignment_rows, i + 1)

detect_stutter_by_repeated_fragment(alignment_rows) ==
    detect_stutter_from(alignment_rows, 1)

\* float(row.get("jitter_approx") or 0.0), 0.0 on a conversion error
parse_jitter(cell) ==
    IF cell.k = "num" THEN Num(cell.v)
    ELSE IF cell.k = "nanstr" THEN NaN
    ELSE Num(0)

\* the test with the boundary left out
is_tremor_strict(row) ==
    LET jitter == parse_jitter(row.jitter_approx)
    IN IsNum(jitter) /\ jitter.v # 0 /\ jitter.v > jitter_thresh

\* jitter and jitter >= jitter_thresh (NaN is truthy and compares False)
is_tremor(row) ==
    LET jitter == parse_jitter(row.jitter_approx)
    IN IsNum(jitter) /\ jitter.v # 0 /\ jitter.v >= jitter_thresh

RECURSIVE detect_tremor_from(_, _)
detect_tremor_from(prosody_map, i) ==
    IF i > Len(prosody_map) THEN <<>>
    ELSE (IF is_tremor(prosody_map[i])
          THEN <<word_event("tremor", i - 1, TokTremor)>>
          ELSE <<>>)
         \o detect_tremor_from(prosody_map, i + 1)

detect_tremor_from_prosody(prosody_map) == detect_tremor_from(prosody_map, 1)

\* the scan with an absent start read as 0.0
RECURSIVE pause_scan_or_zero(_, _, _, _)
pause_scan_or_zero(alignment_rows, pause_start, i, idx) ==
    IF i > Len(alignment_rows) THEN idx
    ELSE IF or_zero(alignment_rows[i].start) <= pause_start
         THEN pause_scan_or_zero(alignment_rows, pause_start, i + 1, Num(i - 1))
         ELSE idx

\* the scan of assign_pause_to_nearest_word: idx after looking at rows i..,
\* None while no row qualified; it stops at the first row that starts later
RECURSIVE pause_scan(_, _, _, _)
pause_scan(alignment_rows, pause_start, i, idx) ==
    IF i > Len(alignment_rows) THEN idx
    ELSE LET s == alignment_rows[i].start
         IN IF ~IsNum(s) THEN pause_scan(alignment_rows, pause_start, i + 1, idx)
            ELSE IF s.v <= pause_start
                 THEN pause_scan(alignment_rows, pause_start, i + 1, Num(i - 1))
                 ELSE idx

\* insert_after = idx if idx is not None else 0
pause_fallback(idx) == IF IsNum(idx) THEN idx ELSE Num(0)

assign_pause_to_nearest_word(alignment_rows, pause_start, pause_duration) ==
    pause_event(pause_start, pause_duration,
                TokPausePrefix \o fmt_2f(pause_duration) \o TokPauseSuffix,
                pause_fallback(pause_scan(alignment_rows, pause_start, 1, None)))

pause_events(alignment_rows, pauses) ==
    [j \in 1..Len(pauses) |->
        assign_pause_to_nearest_word(alignment_rows, pauses[j].start, pauses[j].duration)]

\* the stage giving up on the Word detectors when there are no VAD segments
detect_all_needs_vad(alignment_rows, vad_segments, prosody_map) ==
    IF vad_segments = <<>> THEN detect_tremor_from_prosody(prosody_map)
    ELSE pause_events(alignment_rows, detect_pauses_from_vad(vad_segments))
         \o detect_fillers(alignment_rows)
         \o detect_repeat_words(alignment_rows)
         \o detect_stutter_by_repeated_fragment(alignment_rows)
         \o detect_cutoffs(alignment_rows)
         \o detect_tremor_from_prosody(prosody_map)

\* main, lines 180-195: the detectors in their fixed evaluation order
detect_all(alignment_rows, vad_segments, prosody_map) ==
    pause_events(alignment_rows, detect_pauses_from_vad(vad_segments))
    \o detect_fillers(alignment_rows)
    \o detect_repeat_words(alignment_rows)
    \o detect_stutter_by_repeated_fragment(alignment_rows)
    \o detect_cutoffs(alignment_rows)
    \o detect_tremor_from_prosody(prosody_map)

(***************************************************************************)
(* Event merger: sorted(events, key=sort_key)                              *)
(***************************************************************************)
\* sort_key with the two priorities exchanged
sort_key_pause_last(e, alignment_rows) ==
    IF e.type = "pause"
    THEN [t |-> IF IsNum(e.start) THEN e.start ELSE Inf, p |-> 1]
    ELSE [t |-> IF /\ IsNum(e.word_idx)
                   /\ 0 <= e.word_idx.v
                   /\ e.word_idx.v < Len(alignment_rows)
                   /\ IsNum(alignment_rows[e.word_idx.v + 1].start)
                THEN alignment_rows[e.word_idx.v + 1].start
                ELSE Inf,
          p |-> 0]

\* (time, priority); time is a number or +infinity
sort_key(e, alignment_rows) ==
    IF e.type = "pause"
    THEN [t |-> IF IsNum(e.start) THEN e.start ELSE Inf, p |-> 0]
    ELSE [t |-> IF /\ IsNum(e.word_idx)
                   /\ 0 <= e.word_idx.v
                   /\ e.word_idx.v < Len(alignment_rows)
                   /\ IsNum(alignment_rows[e.word_idx.v + 1].start)
                THEN alignment_rows[e.word_idx.v + 1].start
                ELSE Inf,
          p |-> 1]

\* tuple comparison k1 < k2
key_less(k1, k2) ==
    \/ IsNum(k1.t) /\ IsNum(k2.t) /\ k1.t.v < k2.t.v
    \/ IsNum(k1.t) /\ ~IsNum(k2.t)
    \/ k1.t = k2.t /\ k1.p < k2.p

key_le(k1, k2) == key_less(k1, k2) \/ k1 = k2

\* an insertion that places e before the elements of equal key
RECURSIVE unstable_insert(_, _, _)
unstable_insert(e, s, alignment_rows) ==
    IF s = <<>> THEN <<e>>
    ELSE IF key_le(sort_key(e, alignment_rows), sort_key(Head(s), alignment_rows))
         THEN <<e>> \o s
         ELSE <<Head(s)>> \o unstable_insert(e, Tail(s), alignment_rows)

\* place e after every element whose key is not greater: a stable insertion
RECURSIVE stable_insert(_, _, _)
stable_insert(e, s, alignment_rows) ==
    IF s = <<>> THEN <<e>>
    ELSE IF key_less(sort_key(e, alignment_rows), sort_key(Head(s), alignment_rows))
         THEN <<e>> \o s
         ELSE <<Head(s)>> \o stable_insert(e, Tail(s), alignment_rows)

RECURSIVE sorted_from(_, _, _)
sorted_from(todo, done, alignment_rows) ==
    IF todo = <<>> THEN done
    ELSE sorted_from(Tail(todo), stable_insert(Head(todo), done, alignment_rows),
                     alignment_rows)

\* a sort that keeps only the events whose key has a time
sorted_events_timed(evs, alignment_rows) ==
    sorted_from(SelectSeq(evs, LAMBDA e : IsNum(sort_key(e, alignment_rows).t)),
                <<>>, alignment_rows)

\* Python's sorted(): stable, ascending by key
sorted_events(evs, alignment_rows) == sorted_from(evs, <<>>, alignment_rows)

(***************************************************************************)
(* Transcript reconstructor: 06_merger.py                                  *)
(***************************************************************************)
long_pause == 60
default_word_dur == 5

\* the types bucketed before, Repeat left out
before_types_no_repeat == {"filler", "stutter"}

\* t in ("filler", "stutter", "repeat_word")
before_types == {"filler", "stutter", "repeat_word"}

\* insert_before[i]: tokens of the events bucketed before word i (0-based),
\* in the order of the event list
RECURSIVE insert_before(_, _)
insert_before(evs, i) ==
    IF evs = <<>> THEN <<>>
    ELSE LET ev == Head(evs)
         IN (IF ev.type # "pause" /\ IsNum(ev.word_idx) /\ ev.word_idx.v = i
                /\ ev.type \in before_types
             THEN <<ev.token>> ELSE <<>>)
            \o insert_before(Tail(evs), i)

\* insert_after[i]: a pause goes by insert_after_word_idx, every other
\* event that is not bucketed before goes by word_idx
RECURSIVE insert_after(_, _)
insert_after(evs, i) ==
    IF evs = <<>> THEN <<>>
    ELSE LET ev == Head(evs)
         IN (IF \/ ev.type = "pause" /\ ev.insert_after_word_idx = Num(i)
                \/ ev.type # "pause" /\ IsNum(ev.word_idx) /\ ev.word_idx.v = i
                   /\ ev.type \notin before_types
             THEN <<ev.token>> ELSE <<>>)
            \o insert_after(Tail(evs), i)

\* the VAD test of lines 110-117 for a word starting at start
large_pause(vad, prev_end, start) ==
    \E j \in 1..Len(vad) :
        /\ ~vad[j].is_speech
        /\ vad[j].start >= prev_end
        /\ vad[j].end <= start
        /\ (vad[j].end - vad[j].start) >= long_pause

tag(src, toks) == [j \in 1..Len(toks) |-> [src |-> src, text |-> toks[j]]]

\* tokens of word i (1-based position): before-tokens, the word, after-tokens,
\* with the empty strings filtered out as filter(None, tokens) does
word_tokens(w, evs, i) ==
    SelectSeq(tag("before", insert_before(evs, i - 1))
              \o tag("word", <<w.word>>)
              \o tag("after", insert_after(evs, i - 1)),
              LAMBDA t : t.text # <<>>)

piece_texts(pieces) == [j \in 1..Len(pieces) |-> pieces[j].text]

\* " ".join(filter(None, tokens))
item_text(item) == join(<<" ">>, piece_texts(item))

\* header + " ".join(current_line)
line_text(ln) ==
    ln.header \o join(<<" ">>, [j \in 1..Len(ln.items) |-> item_text(ln.items[j])])

header_of(current_line_start) ==
    IF IsNum(current_line_start)
    THEN <<"[">> \o fmt_06_2f(current_line_start.v) \o <<"]", " ">>
    ELSE <<>>

\* the loop with the line cleared before the word is appended at a break
RECURSIVE reconstruct_from_drop(_, _, _, _, _, _, _, _)
reconstruct_from_drop(al, vad, evs, i, out, current_line, current_line_start, prev_end) ==
    IF i > Len(al)
    THEN IF current_line # <<>>
         THEN Append(out, [header |-> header_of(current_line_start),
                           items |-> current_line])
         ELSE out
    ELSE LET w == al[i]
             start == or_zero(w.start)
             end == IF IsNum(w.end) /\ w.end.v # 0 THEN w.end.v
                    ELSE start + default_word_dur
             line_start == IF IsNum(current_line_start) THEN current_line_start
                           ELSE Num(start)
             brk == large_pause(vad, prev_end, start)
             line == Append(current_line, word_tokens(w, evs, i))
         IN IF brk
            THEN reconstruct_from_drop(al, vad, evs, i + 1,
                     IF current_line # <<>>
                     THEN Append(out, [header |-> header_of(line_start),
                                       items |-> current_line])
                     ELSE out,
                     <<>>, None, end)
            ELSE reconstruct_from_drop(al, vad, evs, i + 1, out, line, line_start, end)

\* the loop with the final flush done whether or not a line is open
RECURSIVE reconstruct_from_flush(_, _, _, _, _, _, _, _)
reconstruct_from_flush(al, vad, evs, i, out, current_line, current_line_start, prev_end) ==
    IF i > Len(al)
    THEN Append(out, [header |-> header_of(current_line_start), items |-> current_line])
    ELSE LET w == al[i]
             start == or_zero(w.start)
             end == IF IsNum(w.end) /\ w.end.v # 0 THEN w.end.v
                    ELSE start + default_word_dur
             line_start == IF IsNum(current_line_start) THEN current_line_start
                           ELSE Num(start)
             brk == large_pause(vad, prev_end, start)
             line == Append(current_line, word_tokens(w, evs, i))
         IN IF brk
            THEN reconstruct_from_flush(al, vad, evs, i + 1,
                     Append(out, [header |-> header_of(line_start), items |-> line]),
                     <<>>, None, end)
            ELSE reconstruct_from_flush(al, vad, evs, i + 1, out, line, line_start, end)

\* the loop of lines 104-136 from word i on, then the flush of lines 139-141
RECURSIVE reconstruct_from(_, _, _, _, _, _, _, _)
reconstruct_from(al, vad, evs, i, out, current_line, current_line_start, prev_end) ==
    IF i > Len(al)
    THEN IF current_line # <<>>
         THEN Append(out, [header |-> header_of(current_line_start),
                           items |-> current_line])
         ELSE out
    ELSE LET w == al[i]
             start == or_zero(w.start)
             end == IF IsNum(w.end) /\ w.end.v # 0 THEN w.end.v
                    ELSE start + default_word_dur
             line_start == IF IsNum(current_line_start) THEN current_line_start
                           ELSE Num(start)
             brk == large_pause(vad, prev_end, start)
             line == Append(current_line, word_tokens(w, evs, i))
         IN IF brk
            THEN reconstruct_from(al, vad, evs, i + 1,
                     Append(out, [header |-> header_of(line_start), items |-> line]),
                     <<>>, None, end)
            ELSE reconstruct_from(al, vad, evs, i + 1, out, line, line_start, end)

reconstruct(al, vad, evs) == reconstruct_from(al, vad, evs, 1, <<>>, <<>>, None, 0)

\* the start of a Word left as the Word holds it
word_start_raw(w) == w.start

\* start = w.get("start") or 0.0 (line 105): a number whatever the Word holds
word_start(w) == Num(or_zero(w.start))

\* w.get("end") is truthy
end_known(w) == IsNum(w.end) /\ w.end.v # 0

\* The operations of lines 104-136 that raise TypeError on None, from word i
\* on: start + 0.05 (line 106), start + 1e-6 for a non-speech segment that
\* passes seg["start"] >= prev_end - 1e-6 (line 114) and the format of
\* current_line_start at a commit (line 133).  The flush of line 140 tests
\* for None itself.
RECURSIVE reconstruct_raises_from(_, _, _, _, _)
reconstruct_raises_from(al, vad, i, current_line_start, prev_end) ==
    IF i > Len(al) THEN FALSE
    ELSE LET w == al[i]
             start == word_start(w)
             line_start == IF IsNum(current_line_start) THEN current_line_start
                           ELSE start
             end == IF end_known(w) THEN w.end.v ELSE start.v + default_word_dur
             brk == large_pause(vad, prev_end, start.v)
         IN \/ ~end_known(w) /\ ~IsNum(start)
            \/ /\ ~IsNum(start)
               /\ \E j \in 1..Len(vad) : ~vad[j].is_speech /\ vad[j].start >= prev_end
            \/ brk /\ ~IsNum(line_start)
            \/ reconstruct_raises_from(al, vad, i + 1,
                                       IF brk THEN None ELSE line_start, end)

reconstruct_raises(al, vad) == reconstruct_raises_from(al, vad, 1, None, 0)

(***************************************************************************)
(* Text files: what a write puts in the file and what a read gets back     *)
(***************************************************************************)
NL == "\n"

\* out_path.write_text("\n".join(lines)): the newline is a separator
write_joined(ls) == join(<<NL>>, ls)

\* for ln in ml_lines: fo.write(ln + "\n"): the newline is a terminator
RECURSIVE write_terminated(_)
write_terminated(ls) ==
    IF ls = <<>> THEN <<>> ELSE Head(ls) \o <<NL>> \o write_terminated(Tail(ls))

newlines(file) == {j \in 1..Len(file) : file[j] = NL}

\* [ln.rstrip("\n") for ln in f]: one line per newline, and one more for
\* text left after the last newline
RECURSIVE read_lines_from(_, _)
read_lines_from(file, i) ==
    LET b == first_from(file, i, newlines(file))
    IN IF i > Len(file) THEN <<>>
       ELSE <<SubSeq(file, i, b - 1)>> \o read_lines_from(file, b + 1)

read_lines(file) == read_lines_from(file, 1)

load_annotated_lines(file) == read_lines(file)

(***************************************************************************)
(* Time-slice exporter: ml_prep_split.py                                   *)
(***************************************************************************)
min_total_dur == 100

\* start: float(cell) unless the cell is None, "" or "None" ("nan" parses to
\* NaN, a conversion error gives None)
ml_parse_start(cell) ==
    IF cell.k = "num" THEN Num(cell.v)
    ELSE IF cell.k = "nanstr" THEN NaN
    ELSE None

\* the exporter's own load_alignment: end is kept as the cell's text
ml_load_alignment(rows) ==
    [i \in 1..Len(rows) |->
        [word |-> rows[i].word,
         start |-> ml_parse_start(rows[i].start),
         end |-> rows[i].end]]

build_token_to_start_map(alignment_rows) ==
    [i \in 1..Len(alignment_rows) |->
        [idx |-> i - 1, word |-> alignment_rows[i].word,
         start |-> alignment_rows[i].start]]

\* the scan of estimate_total_duration from row i down to the first row:
\* the value of `last` when the loop ends
RECURSIVE last_time(_, _)
last_time(alignment_rows, i) ==
    IF i < 1 THEN Num(0)
    ELSE LET r == alignment_rows[i]
         IN IF r.end.k # "missing"
            THEN (IF r.end.k = "num" THEN Num(r.end.v)
                  ELSE IF r.end.k = "nanstr" THEN NaN
                  ELSE last_time(alignment_rows, i - 1))
            ELSE IF r.start.k # "none"
                 THEN r.start
                 ELSE last_time(alignment_rows, i - 1)

\* max(1.0, last): NaN never compares greater
estimate_total_duration(alignment_rows) ==
    LET last == last_time(alignment_rows, Len(alignment_rows))
    IN IF IsNum(last) /\ last.v > min_total_dur THEN last.v ELSE min_total_dur

\* split_by_time computes the boundary i * (D / n) in IEEE-754 doubles.  For
\* the total durations of the model (1.00 s and 2.10 s) and n <= 8 these are
\* the <<i, D, n>> whose product comes out above the double of the decimal
\* i*D/n (3 * (1.0 / 5) = 0.6000000000000001, 1 * (2.1 / 3) =
\* 0.7000000000000001); every other boundary that is a whole number of
\* centiseconds comes out at or below it.
rounded_up ==
    {<<3, 100, 5>>,
     <<1, 210, 3>>, <<2, 210, 3>>,
     <<1, 210, 5>>, <<2, 210, 5>>, <<3, 210, 5>>, <<4, 210, 5>>,
     <<1, 210, 6>>, <<2, 210, 6>>, <<4, 210, 6>>, <<5, 210, 6>>}

\* i * slice_len <= t, for t a whole number of centiseconds: the comparison
\* multiplied through by n, the tie decided by the rounding of the product
boundary_le(i, total_duration, n, t) ==
    \/ i * total_duration < t * n
    \/ i * total_duration = t * n /\ <<i, total_duration, n>> \notin rounded_up

\* t >= a and (t < b or i == len(boundaries)-1), (a, b) being the boundaries
\* (i * slice_len, (i+1) * slice_len) of slice i (0-based)
in_slice(t, i, total_duration, n) ==
    /\ IsNum(t)
    /\ boundary_le(i, total_duration, n, t.v)
    /\ (~boundary_le(i + 1, total_duration, n, t.v) \/ i = n - 1)

\* the first slice whose test holds, none (index n) when none does
slice_of_or_none(t, total_duration, n) ==
    IF \E i \in 0..(n - 1) : in_slice(t, i, total_duration, n)
    THEN CHOOSE i \in 0..(n - 1) :
            /\ in_slice(t, i, total_duration, n)
            /\ \A j \in 0..(i - 1) : ~in_slice(t, j, total_duration, n)
    ELSE n

\* the slice a token with timestamp t is appended to: the first one whose
\* test holds, the last one when none does
slice_of(t, total_duration, n) ==
    IF \E i \in 0..(n - 1) : in_slice(t, i, total_duration, n)
    THEN CHOOSE i \in 0..(n - 1) :
            /\ in_slice(t, i, total_duration, n)
            /\ \A j \in 0..(i - 1) : ~in_slice(t, j, total_duration, n)
    ELSE n - 1

\* "".join(ch for ch in tok.lower() if ch.isalnum())
clean(tok) == SelectSeq(lower(tok), isalnum)

RECURSIVE flatten_tokens(_)
flatten_tokens(annot_lines) ==
    IF annot_lines = <<>> THEN <<>>
    ELSE split_ws(Head(annot_lines)) \o flatten_tokens(Tail(annot_lines))

\* x or 0.0 where x may be None, a number or NaN
or_zero_opt(o) == IF o.k = "none" \/ (IsNum(o) /\ o.v = 0) THEN Num(0) ELSE o

\* the loop of lines 75-87: cur is the 1-based position of the current word
\* in token_map (past the end once the iterator is exhausted)
RECURSIVE assign_times(_, _, _, _)
assign_times(flat_tokens, token_map, cur, acc) ==
    IF flat_tokens = <<>> THEN acc
    ELSE LET tok == Head(flat_tokens)
             has_cur == cur <= Len(token_map)
             cur_word == IF has_cur THEN token_map[cur].word ELSE <<>>
             cur_start == IF has_cur THEN token_map[cur].start ELSE None
         IN IF cur_word # <<>> /\ clean(tok) = clean(cur_word) /\ cur_start.k # "none"
            THEN assign_times(Tail(flat_tokens), token_map, cur + 1,
                              Append(acc, [tok |-> tok, t |-> cur_start]))
            ELSE assign_times(Tail(flat_tokens), token_map, cur,
                     Append(acc, [tok |-> tok,
                                  t |-> IF acc # <<>> THEN acc[Len(acc)].t
                                        ELSE or_zero_opt(cur_start)]))

token_assignments(annot_lines, token_map) ==
    assign_times(flatten_tokens(annot_lines), token_map, 1, <<>>)

\* the tokens appended to slice i (0-based), in assignment order
slice_tokens(assignments, i, total_duration, n) ==
    LET mine == SelectSeq(assignments,
                          LAMBDA a : slice_of(a.t, total_duration, n) = i)
    IN [j \in 1..Len(mine) |-> mine[j].tok]

\* lines 89-99 of assign_tokens_to_slices: the placement of the timestamped
\* tokens, one line per slice
place_tokens(assignments, total_duration, n) ==
    [i \in 1..n |->
        strip(join(<<" ">>, slice_tokens(assignments, i - 1, total_duration, n)))]

\* main: the file written for an alignment without rows
ml_empty_file(n) == write_joined([i \in 1..n |-> <<>>])

\* float(total_duration) / float(n) (line 40) raises ZeroDivisionError
split_raises(n) == n = 0

\* t >= a (line 93) raises TypeError for a timestamp that is None; float() in
\* estimate_total_duration is inside try, and token_assignments[-1] is read
\* only when the list is non-empty
placement_raises(assignments) ==
    \E j \in 1..Len(assignments) : assignments[j].t.k = "none"

\* the annotated transcript as 06_merger.py writes it
annotated_file(ls) == write_joined([j \in 1..Len(ls) |-> line_text(ls[j])])

(***************************************************************************)
(* VAD stage: 02_vad_webrtc.py.  Times are in tenths of a millisecond.     *)
(***************************************************************************)
\* n / sample_rate for the default frame of 30 ms
frame_len == 300

\* what the float sums of frame_generator can be off by: far less than the
\* millisecond that round(x, 3) keeps
FloatErr == {-1, 0, 1}

\* t at the k-th yield of frame_generator (k from 1): 0.0, then the running
\* sum t += n / sample_rate, off by err[k - 1]
frame_start(k, err) == IF k = 1 THEN 0 ELSE (k - 1) * frame_len + err[k - 1]

\* t + len(frame) / sr: the same sum as the t of the next frame
frame_end(k, err) == k * frame_len + err[k]

\* lines 55-59: one (start, end, flag) per frame
classify_frames(flags, err) ==
    [k \in 1..Len(flags) |->
        [s |-> frame_start(k, err), e |-> frame_end(k, err), flag |-> flags[k]]]

\* round(x, 3): to the nearest millisecond, a tie going to the even one
round3(x) ==
    LET q == x \div 10
        r == x % 10
    IN IF r < 5 THEN q * 10
       ELSE IF r > 5 THEN (q + 1) * 10
       ELSE IF q % 2 = 0 THEN q * 10 ELSE (q + 1) * 10

segment(cur_start, cur_end, cur_flag) ==
    [start |-> round3(cur_start), end |-> round3(cur_end), is_speech |-> cur_flag]

\* the loop with cur_end left alone on an equal flag
RECURSIVE collapse_from_keep_end(_, _, _, _, _, _)
collapse_from_keep_end(flags, i, cur_flag, cur_start, cur_end, segs) ==
    IF i > Len(flags) THEN Append(segs, segment(cur_start, cur_end, cur_flag))
    ELSE IF flags[i].flag = cur_flag
         THEN collapse_from_keep_end(flags, i + 1, cur_flag, cur_start, cur_end, segs)
         ELSE collapse_from_keep_end(flags, i + 1, flags[i].flag, flags[i].s, flags[i].e,
                                     Append(segs, segment(cur_start, cur_end, cur_flag)))

\* the loop of lines 67-74 from frame i on, then the append of line 75
RECURSIVE collapse_from(_, _, _, _, _, _)
collapse_from(flags, i, cur_flag, cur_start, cur_end, segs) ==
    IF i > Len(flags) THEN Append(segs, segment(cur_start, cur_end, cur_flag))
    ELSE IF flags[i].flag = cur_flag
         THEN collapse_from(flags, i + 1, cur_flag, cur_start, flags[i].e, segs)
         ELSE collapse_from(flags, i + 1, flags[i].flag, flags[i].s, flags[i].e,
                            Append(segs, segment(cur_start, cur_end, cur_flag)))

\* lines 62-75: contiguous equal flags collapsed into segments
collapse(flags) ==
    IF flags = <<>> THEN <<>>
    ELSE collapse_from(flags, 2, flags[1].flag, flags[1].s, flags[1].e, <<>>)

(***************************************************************************)
(* Inputs                                                                  *)
(***************************************************************************)
Cell(x) == [k |-> "num", v |-> x]

SeqsUpTo(S, n) == UNION {[1..k -> S] : k \in 0..n}

Rows(Texts, Starts, Ends) == [word : Texts, start : Starts, end : Ends]

Seg(a, b, sp) == [start |-> a, end |-> b, is_speech |-> sp]

File(rows) == [exists |-> TRUE, rows |-> rows]
NoFile == [exists |-> FALSE, rows |-> <<>>]

Jitter(cell) == [jitter_approx |-> cell]

TxtUm == <<"u","m">>
TxtUmRaw == <<" ","U","m">>
TxtStutter == <<"t","h","-","t","h">>
TxtEmpty == <<>>
TxtStutterCap == <<"T","h","-","t","h">>
TxtStutterBlank == <<"t","h","-"," ","t","h">>
TxtHyphenDiff == <<"t","h","-","u","m">>
TxtHyphen == <<"-">>
TxtStutterThree == <<"t","h","-","t","h","-","u","m">>
TxtStutterLate == <<"u","m","-","t","h","-","t","h">>

\* non-speech of 0.15 s and of 0.14 s and speech of 0.60 s, all starting at
\* 0.70 s
SegsAt70 == {Seg(70, 85, FALSE), Seg(70, 84, FALSE), Seg(70, 130, TRUE)}

\* VAD files: none; a pause of 0.60 s at 0.70 s; that pause after one of
\* 0.15 s at 0 s
VadFiles ==
    {NoFile,
     File(<<Seg(70, 130, FALSE)>>),
     File(<<Seg(0, 15, FALSE), Seg(70, 130, FALSE)>>)}

\* prosody files: none, and one of six rows whose jitter is at the threshold
\* (row 0), absent or unusable (rows 1-3), below it (row 4) and above it
\* (row 5, past the end of every Word sequence of the model)
ProsodyFiles ==
    {NoFile,
     File(<<Jitter(Cell(15)), Jitter(CellEmpty), Jitter(CellNan), Jitter(CellJunk),
            Jitter(Cell(14)), Jitter(Cell(20))>>)}

TypeInit ==
    /\ pc = "start"
    /\ events = <<>>
    /\ events_sorted = <<>>
    /\ lines = <<>>
    /\ ml_file = <<>>
    /\ n_slices = 0
    /\ speech_flags = <<>>
    /\ segments = <<>>

(***************************************************************************)
(* The three programs, run in dependency order                             *)
(***************************************************************************)
\* 05_disfluency.py main
Disfluency ==
    /\ pc = "start"
    /\ LET alignment_rows == load_alignment(align_csv)
           evs == detect_all(alignment_rows, load_vad(vad_csv),
                             load_prosody(prosody_csv))
       IN /\ events' = evs
          /\ events_sorted' = sorted_events(evs, alignment_rows)
    /\ pc' = "events"
    /\ UNCHANGED <<align_csv, vad_csv, prosody_csv, n_slices, lines, ml_file,
                   speech_flags, segments>>

\* 06_merger.py main
Merger ==
    /\ pc = "events"
    /\ LET align == load_alignment(align_csv)
           vad == load_vad(vad_csv)
       IN IF reconstruct_raises(align, vad)
          THEN pc' = "failed" /\ lines' = lines
          ELSE pc' = "annotated" /\ lines' = reconstruct(align, vad, events_sorted)
    /\ UNCHANGED <<align_csv, vad_csv, prosody_csv, n_slices, events,
                   events_sorted, ml_file, speech_flags, segments>>

\* 02_vad_webrtc.py main, from the classified frames on
VadWebrtc ==
    /\ pc = "audio"
    /\ segments' = collapse(speech_flags)
    /\ pc' = "vad"
    /\ UNCHANGED <<align_csv, vad_csv, prosody_csv, n_slices, events, events_sorted,
                   lines, ml_file, speech_flags>>

\* ml_prep_split.py main, run with --n n
MlPrepSplit ==
    /\ pc = "annotated"
    /\ LET alignment_rows == ml_load_alignment(align_csv)
           annot_lines == load_annotated_lines(annotated_file(lines))
           token_map == build_token_to_start_map(alignment_rows)
           total_dur == estimate_total_duration(alignment_rows)
           assignments == token_assignments(annot_lines, token_map)
       IN \E n \in 1..MaxN :
             /\ n_slices' = n
             /\ IF Len(alignment_rows) = 0
                THEN pc' = "exported" /\ ml_file' = ml_empty_file(n)
                ELSE IF split_raises(n) \/ placement_raises(assignments)
                THEN pc' = "failed" /\ ml_file' = ml_file
                ELSE /\ pc' = "exported"
                     /\ ml_file' = write_terminated(
                                       place_tokens(assignments, total_dur, n))
    /\ UNCHANGED <<align_csv, vad_csv, prosody_csv, events, events_sorted, lines,
                   speech_flags, segments>>

(***************************************************************************)
(* Specifications                                                          *)
(***************************************************************************)
\* the whole pipeline
Init ==
    /\ align_csv \in SeqsUpTo(Rows({TxtUm, TxtEmpty}, {Cell(0), Cell(140), CellEmpty},
                                   {CellEmpty, Cell(60)}), MaxWords)
    /\ vad_csv \in VadFiles
    /\ prosody_csv \in ProsodyFiles
    /\ TypeInit

Next == Disfluency \/ Merger \/ MlPrepSplit

Spec == Init /\ [][Next]_vars

\* the detector stage alone, over all three inputs
InitDetect ==
    /\ align_csv \in SeqsUpTo(Rows({TxtUm, TxtStutter},
                                   {Cell(0), Cell(70), Cell(140), CellEmpty},
                                   {CellEmpty}), MaxWords)
    /\ vad_csv \in {NoFile} \cup {File(r) : r \in SeqsUpTo(SegsAt70, MaxSegs)}
    /\ prosody_csv \in ProsodyFiles
    /\ TypeInit

NextDetect == Disfluency

SpecDetect == InitDetect /\ [][NextDetect]_vars

\* the detector stage over word sequences
InitWords ==
    /\ align_csv \in SeqsUpTo(Rows({TxtUm, TxtUmRaw, TxtStutter, TxtEmpty},
                                   {Cell(0), Cell(60), Cell(130), CellEmpty},
                                   {CellEmpty}), MaxWordsW)
    /\ vad_csv = NoFile
    /\ prosody_csv = NoFile
    /\ TypeInit

NextWords == Disfluency

SpecWords == InitWords /\ [][NextWords]_vars

\* the detector stage over word texts
InitTexts ==
    /\ align_csv \in SeqsUpTo(Rows({TxtUm, TxtStutter, TxtStutterCap, TxtStutterBlank,
                                    TxtHyphenDiff, TxtHyphen, TxtStutterThree,
                                    TxtStutterLate},
                                   {Cell(0)}, {CellEmpty}), MaxWords)
    /\ vad_csv = NoFile
    /\ prosody_csv = NoFile
    /\ TypeInit

NextTexts == Disfluency

SpecTexts == InitTexts /\ [][NextTexts]_vars

\* the detector stage over word timings: durations of 0.01 s and 0.02 s, a
\* negative one, long ones, and cells without a number
InitTimings ==
    /\ align_csv \in SeqsUpTo(Rows({TxtUm},
                                   {Cell(0), Cell(50), CellEmpty, CellJunk},
                                   {Cell(1), Cell(2), Cell(51), Cell(52), CellEmpty, CellNan}),
                               MaxWords)
    /\ vad_csv = NoFile
    /\ prosody_csv = NoFile
    /\ TypeInit

NextTimings == Disfluency

SpecTimings == InitTimings /\ [][NextTimings]_vars

\* the detector stage over prosody files: jitter at, below and above the
\* threshold, zero, negative, and cells without a number
InitProsody ==
    /\ align_csv \in SeqsUpTo(Rows({TxtUm}, {Cell(0)}, {Cell(60)}), MaxWords)
    /\ vad_csv = NoFile
    /\ prosody_csv \in {NoFile} \cup
          {File(r) : r \in SeqsUpTo({Jitter(c) : c \in {Cell(0), Cell(14), Cell(15), Cell(20),
                                                       Cell(-20), CellEmpty, CellNan,
                                                       CellJunk}}, MaxPros)}
    /\ TypeInit

NextProsody == Disfluency

SpecProsody == InitProsody /\ [][NextProsody]_vars

\* detection and reconstruction, over texts with fillers, stutters and
\* repeats and words without text or start
InitMerge ==
    /\ align_csv \in SeqsUpTo(Rows({TxtUm, TxtStutter, TxtEmpty},
                                   {Cell(0), Cell(140), CellEmpty},
                                   {CellEmpty, Cell(60)}), MaxWords)
    /\ vad_csv \in VadFiles
    /\ prosody_csv \in ProsodyFiles
    /\ TypeInit

NextMerge == Disfluency \/ Merger

SpecMerge == InitMerge /\ [][NextMerge]_vars

\* the whole pipeline over words that start on slice boundaries: the last
\* word's end of 2.10 s makes 0.70 s and 1.40 s the boundaries of three slices
InitExport ==
    /\ align_csv \in SeqsUpTo(Rows({TxtUm}, {Cell(0), Cell(70), Cell(140), CellEmpty, CellNan},
                                   {Cell(210), CellEmpty}), MaxWords)
    /\ vad_csv \in VadFiles
    /\ prosody_csv = NoFile
    /\ TypeInit

NextExport == Disfluency \/ Merger \/ MlPrepSplit

SpecExport == InitExport /\ [][NextExport]_vars

\* the VAD stage over every flag sequence of up to MaxFrames frames
InitVad ==
    /\ \E K \in 0..MaxFrames : \E flags \in [1..K -> BOOLEAN] : \E err \in [1..K -> FloatErr] :
          speech_flags = classify_frames(flags, err)
    /\ segments = <<>>
    /\ pc = "audio"
    /\ align_csv = <<>>
    /\ vad_csv = NoFile
    /\ prosody_csv = NoFile
    /\ events = <<>>
    /\ events_sorted = <<>>
    /\ lines = <<>>
    /\ ml_file = <<>>
    /\ n_slices = 0

NextVad == VadWebrtc

SpecVad == InitVad /\ [][NextVad]_vars

(***************************************************************************)
(* Properties                                                              *)
(***************************************************************************)
Words == load_alignment(align_csv)
NWords == Len(align_csv)
OfType(evs, type) == SelectSeq(evs, LAMBDA e : e.type = type)
Norm(text) == lower(strip(text))
Detected == pc # "start"

\* The key of section 4.2, stated from the event and the Word sequence:
\* <<finite, time, priority>>, finite = FALSE standing for +infinity.
MergeKey(e) ==
    IF e.type = "pause" THEN <<TRUE, e.start.v, 0>>
    ELSE IF /\ e.word_idx.v \in 0..(NWords - 1)
            /\ IsNum(Words[e.word_idx.v + 1].start)
         THEN <<TRUE, Words[e.word_idx.v + 1].start.v, 1>>
         ELSE <<FALSE, 0, 1>>

MergeKeyLE(a, b) ==
    \/ a[1] /\ ~b[1]
    \/ a[1] = b[1] /\ a[2] < b[2]
    \/ a[1] = b[1] /\ a[2] = b[2] /\ a[3] <= b[3]

\* C1: in the merged event list every event's (time, priority) key is <= the
\* key of every event after it; a pause has key (start, 0), any other event
\* (start of its word, or +infinity when that is missing or the index is out
\* of range, 1).
C1_MergedOrder ==
    Detected =>
        \A i, j \in 1..Len(events_sorted) :
            i < j => MergeKeyLE(MergeKey(events_sorted[i]), MergeKey(events_sorted[j]))

\* the merge reordered the detector output, around a pause and a word event
\* of the same time and an event of infinite time
C1_Witness ==
    /\ Detected
    /\ events_sorted # events
    /\ \E i, j, h \in 1..Len(events_sorted) :
          /\ i < j /\ j < h
          /\ events_sorted[i].type = "pause"
          /\ events_sorted[j].type # "pause"
          /\ MergeKey(events_sorted[i])[2] = MergeKey(events_sorted[j])[2]
          /\ MergeKey(events_sorted[j])[1]
          /\ ~MergeKey(events_sorted[h])[1]

DetectorRank(type) ==
    CASE type = "pause" -> 0
      [] type = "filler" -> 1
      [] type = "repeat_word" -> 2
      [] type = "stutter" -> 3
      [] type = "cutoff" -> 4
      [] type = "tremor" -> 5

WithKey(evs, key) == SelectSeq(evs, LAMBDA e : MergeKey(e) = key)

\* C2: the events of one (time, priority) key appear in the merged list in
\* detector order Pause, Filler, Repeat, Stutter, Cutoff, Tremor, and in the
\* order in which they were emitted (the list before the sort).
C2_TiesKeepDetectorOrder ==
    Detected =>
        \A h \in 1..Len(events) :
            LET grp == WithKey(events_sorted, MergeKey(events[h]))
            IN /\ grp = WithKey(events, MergeKey(events[h]))
               /\ \A i, j \in 1..Len(grp) :
                     i < j => DetectorRank(grp[i].type) <= DetectorRank(grp[j].type)

\* a tie between two detectors and a tie inside one detector, in a list the
\* sort reordered
C2_Witness ==
    /\ Detected
    /\ events_sorted # events
    /\ \E i, j \in 1..Len(events_sorted) :
          /\ i < j
          /\ MergeKey(events_sorted[i]) = MergeKey(events_sorted[j])
          /\ events_sorted[i].type # events_sorted[j].type
    /\ \E i, j \in 1..Len(events_sorted) :
          /\ i < j
          /\ MergeKey(events_sorted[i]) = MergeKey(events_sorted[j])
          /\ events_sorted[i].type = events_sorted[j].type
          /\ events_sorted[i] # events_sorted[j]

\* the lines a reader of the exported file gets
ExportedLines == load_annotated_lines(ml_file)

\* C3: the exporter output consists of exactly N lines for every N >= 1 and
\* every Word collection, and with zero Words all N lines are empty.
C3_ExactlyNLines ==
    pc = "exported" =>
        /\ Len(ExportedLines) = n_slices
        /\ NWords = 0 => \A i \in 1..Len(ExportedLines) : ExportedLines[i] = <<>>

RECURSIVE AllItems(_)
AllItems(ls) == IF ls = <<>> THEN <<>> ELSE Head(ls).items \o AllItems(Tail(ls))

\* what is left of one word's rendering once the inserted tokens are deleted
WordPart(item) ==
    join(<<" ">>, piece_texts(SelectSeq(item, LAMBDA t : t.src = "word")))

\* C4: deleting the line headers and the inserted event tokens from the
\* reconstructed transcript leaves exactly the Word texts, every word once,
\* in index order.
C4_WordCoverage ==
    pc \in {"annotated", "exported"} =>
        /\ Len(AllItems(lines)) = NWords
        /\ \A i \in 1..NWords : WordPart(AllItems(lines)[i]) = align_csv[i].word

\* two words on two lines, with a token inserted before and one after a word
C4_Witness ==
    /\ pc = "annotated"
    /\ NWords = 2
    /\ Len(lines) = 2
    /\ \E i \in 1..2 : \E j \in 1..Len(AllItems(lines)[i]) :
          AllItems(lines)[i][j].src = "before"
    /\ \E i \in 1..2 : \E j \in 1..Len(AllItems(lines)[i]) :
          AllItems(lines)[i][j].src = "after"

\* the words that start at or before t
StartedBy(t) == {i \in 1..NWords : IsNum(Words[i].start) /\ Words[i].start.v <= t}

Max(S) == CHOOSE x \in S : \A y \in S : y <= x

\* C6: each Pause's insertAfterWordIndex is the index of the last word whose
\* start is present and <= pause.start, and none when there is no such word.
C6_PauseAnchor ==
    Detected =>
        \A h \in 1..Len(events_sorted) :
            LET e == events_sorted[h]
            IN e.type = "pause" =>
                 e.insert_after_word_idx =
                    IF StartedBy(e.start.v) = {} THEN None
                    ELSE Num(Max(StartedBy(e.start.v)) - 1)

VadSegments == load_vad(vad_csv)

QualifyingSegments ==
    SelectSeq(VadSegments,
              LAMBDA seg : seg.is_speech = FALSE /\ seg.end - seg.start >= min_pause)

\* C7: the Pause detector emits exactly one Pause, with the segment's start
\* and duration = end - start, for each non-speech VoiceSegment with
\* end - start >= minPause, in segment order, and none for any other segment.
C7_PausePerSegment ==
    Detected =>
        LET ps == OfType(events, "pause")
        IN /\ Len(ps) = Len(QualifyingSegments)
           /\ \A i \in 1..Len(ps) :
                 /\ ps[i].start = Num(QualifyingSegments[i].start)
                 /\ ps[i].duration =
                       Num(QualifyingSegments[i].end - QualifyingSegments[i].start)

\* a segment of exactly minPause that gave a Pause beside one that gave none
C7_Witness ==
    /\ Detected
    /\ Len(VadSegments) = 2
    /\ Len(OfType(events, "pause")) = 1
    /\ \E i \in 1..2 : /\ ~VadSegments[i].is_speech
                       /\ VadSegments[i].end - VadSegments[i].start = min_pause

StartOrZero(i) == IF IsNum(Words[i].start) THEN Words[i].start.v ELSE 0

\* the pair (i-1, i), i a 0-based index >= 1, is a repeat
RepeatAt(i) ==
    /\ Norm(Words[i].word) # <<>>
    /\ Norm(Words[i].word) = Norm(Words[i + 1].word)
    /\ StartOrZero(i + 1) - StartOrZero(i) <= max_gap

IndexCount(evs, i) == Cardinality({h \in 1..Len(evs) : evs[h].word_idx = Num(i)})

\* C8: the Repeat detector emits a Repeat with wordIndex = i exactly for the
\* i >= 1 where words i-1 and i have equal non-empty lower-cased trimmed text
\* and start[i] - start[i-1] <= maxGap, a missing start taken as 0.0.
C8_RepeatExactly ==
    Detected =>
        LET rs == OfType(events, "repeat_word")
        IN /\ \A h \in 1..Len(rs) : rs[h].word_idx.v \in 1..(NWords - 1)
           /\ \A i \in 1..(NWords - 1) :
                 IndexCount(rs, i) = IF RepeatAt(i) THEN 1 ELSE 0

\* three equal words: the pair at exactly maxGap gives the only Repeat, the
\* pair further apart and the equal words 0 and 2 give none
C8_Witness ==
    /\ Detected
    /\ NWords = 3
    /\ Norm(Words[1].word) = Norm(Words[3].word)
    /\ Words[1].word # Words[2].word
    /\ IsNum(Words[1].start) /\ IsNum(Words[2].start)
    /\ Words[2].start.v - Words[1].start.v = max_gap
    /\ OfType(events, "repeat_word") # <<>>
    /\ \A h \in 1..Len(events) :
          events[h].type = "repeat_word" => events[h].word_idx = Num(1)

FillerVocabulary == {<<"u","h">>, <<"u","m">>, <<"u","h","h">>, <<"u","m","m">>, <<"h","m","m">>, <<"m","m">>}

\* C10: the Filler detector emits exactly one Filler with wordIndex = i and
\* token /filler_{w}/ for each word i whose lower-cased trimmed text w is in
\* {uh, um, uhh, umm, hmm, mm}, and none for any other word.
C10_FillerExactly ==
    Detected =>
        LET fs == OfType(events, "filler")
        IN /\ \A h \in 1..Len(fs) :
                 /\ fs[h].word_idx.v \in 0..(NWords - 1)
                 /\ fs[h].token =
                       TokFillerPrefix \o Norm(Words[fs[h].word_idx.v + 1].word) \o <<"/">>
           /\ \A i \in 0..(NWords - 1) :
                 IndexCount(fs, i) =
                    IF Norm(Words[i + 1].word) \in FillerVocabulary THEN 1 ELSE 0

\* a filler written with a capital and a leading blank, beside a word that
\* is none
C10_Witness ==
    /\ Detected
    /\ \E h \in 1..Len(events) :
          /\ events[h].type = "filler"
          /\ Words[events[h].word_idx.v + 1].word = TxtUmRaw
          /\ events[h].token = TokFillerPrefix \o TxtUm \o <<"/">>
    /\ \E i \in 1..NWords : IndexCount(OfType(events, "filler"), i - 1) = 0

ProsodyRows == load_prosody(prosody_csv)

StartAbsent(i) == ~IsNum(Words[i].start)

\* the words a scan that skips absent starts can select for a pause at t:
\* those with a start, before the first word that starts after t
Selectable(t) ==
    {i \in 1..NWords :
        /\ IsNum(Words[i].start)
        /\ \A h \in 1..i : IsNum(Words[h].start) => Words[h].start.v <= t}

NoTremorWithoutJitter ==
    \A h \in 1..Len(events) :
        events[h].type = "tremor" =>
            ProsodyRows[events[h].word_idx.v + 1].jitter_approx.k
                \notin {"empty", "missing", "junk", "nanstr"}

\* the Pause scan skips the words with an absent start: they neither are
\* selected nor end the scan
PauseScanSkipsAbsent ==
    \A h \in 1..Len(events) :
        (events[h].type = "pause" /\ Selectable(events[h].start.v) # {}) =>
            events[h].insert_after_word_idx =
                Num(Max(Selectable(events[h].start.v)) - 1)

\* C9 as stated: no detector but Cutoff fires on an absent numeric field:
\* Repeat emits nothing for an adjacent pair in which either start is absent,
\* Pause anchoring ignores the words with an absent start, Tremor emits
\* nothing for an absent or unparseable jitter.
C9_NoFireOnAbsent ==
    Detected =>
        /\ \A h \in 1..Len(events) :
              events[h].type = "repeat_word" =>
                 /\ ~StartAbsent(events[h].word_idx.v)
                 /\ ~StartAbsent(events[h].word_idx.v + 1)
        /\ PauseScanSkipsAbsent
        /\ NoTremorWithoutJitter

\* C9 as amended: Tremor emits nothing for an absent or unparseable jitter
\* and Pause anchoring ignores the words with an absent start, but Repeat
\* takes an absent start as 0.0: for an adjacent pair with an absent start
\* it emits exactly when the texts are equal and non-empty and the gap so
\* computed is <= maxGap.
C9_AbsentFieldHandling ==
    Detected =>
        /\ NoTremorWithoutJitter
        /\ PauseScanSkipsAbsent
        /\ \A i \in 1..(NWords - 1) :
              (StartAbsent(i) \/ StartAbsent(i + 1)) =>
                 IndexCount(OfType(events, "repeat_word"), i) =
                    IF RepeatAt(i) THEN 1 ELSE 0

\* a Pause anchored past a word without start, a Repeat on a pair with an
\* absent start, and prosody rows without usable jitter that gave no Tremor
C9_Witness ==
    /\ Detected
    /\ NWords = 2
    /\ StartAbsent(1)
    /\ \E h \in 1..Len(events) :
          events[h].type = "pause" /\ events[h].insert_after_word_idx = Num(1)
    /\ \E h \in 1..Len(events) : events[h].type = "repeat_word"
    /\ \E i \in 1..Len(ProsodyRows) : ProsodyRows[i].jitter_approx.k = "junk"
    /\ \E h \in 1..Len(events) : events[h].type = "tremor"

\* positions of the hyphens of a text
Hyphens(text) == {j \in 1..Len(text) : text[j] = "-"}

\* the first position of J after i, n + 1 when there is none
FirstAfter(J, i, n) ==
    IF \E j \in J : j > i
    THEN CHOOSE j \in J : j > i /\ \A h \in J : h > i => j <= h
    ELSE n + 1

\* the text before the first hyphen, and the text between the first hyphen
\* and the second one (or the end)
FirstPart(text) == SubSeq(text, 1, FirstAfter(Hyphens(text), 0, Len(text)) - 1)

SecondPart(text) ==
    LET h1 == FirstAfter(Hyphens(text), 0, Len(text))
        h2 == FirstAfter(Hyphens(text), h1, Len(text))
    IN SubSeq(text, h1 + 1, h2 - 1)

StutterToken(text) == TokStutterPrefix \o FirstPart(text) \o <<"-">> \o SecondPart(text) \o <<"/">>

StutterEvents == OfType(events, "stutter")

\* every Stutter sits on a word of the sequence and carries the token built
\* from that word's first two parts
StutterTokens ==
    \A h \in 1..Len(StutterEvents) :
        /\ StutterEvents[h].word_idx.v \in 0..(NWords - 1)
        /\ StutterEvents[h].token = StutterToken(Words[StutterEvents[h].word_idx.v + 1].word)

\* C11 as stated: a Stutter at wordIndex i, with the token built from the
\* word's first two hyphen-separated parts, exactly for the words that
\* contain a hyphen and whose first two parts are equal ignoring case.
C11_StutterIgnoringCase ==
    Detected =>
        /\ StutterTokens
        /\ \A i \in 0..(NWords - 1) :
              IndexCount(StutterEvents, i) =
                 IF /\ Hyphens(Words[i + 1].word) # {}
                    /\ lower(FirstPart(Words[i + 1].word)) = lower(SecondPart(Words[i + 1].word))
                 THEN 1 ELSE 0

\* C11 as amended: a Stutter at wordIndex i, with the token built from the
\* word's first two hyphen-separated parts as written, exactly for the words
\* that contain a hyphen and whose first two parts are equal ignoring case
\* and leading and trailing blanks.
C11_StutterExactly ==
    Detected =>
        /\ StutterTokens
        /\ \A i \in 0..(NWords - 1) :
              IndexCount(StutterEvents, i) =
                 IF /\ Hyphens(Words[i + 1].word) # {}
                    /\ Norm(FirstPart(Words[i + 1].word)) = Norm(SecondPart(Words[i + 1].word))
                 THEN 1 ELSE 0

\* a word whose parts differ in case only beside one whose parts differ in
\* a blank only, both with a Stutter, the tokens keeping case and blank
C11_Witness ==
    /\ Detected
    /\ NWords = 2
    /\ Words[1].word = TxtStutterCap
    /\ Words[2].word = TxtStutterBlank
    /\ Len(StutterEvents) = 2
    /\ StutterEvents[1].token = TokStutterPrefix \o TxtStutterCap \o <<"/">>
    /\ StutterEvents[2].token = TokStutterPrefix \o TxtStutterBlank \o <<"/">>

\* a timing cell of the alignment file that holds a number
HasTime(cell) == cell.k = "num"

CutoffEvents == OfType(events, "cutoff")

\* word i (1-based) has a missing end, a missing start or lasts < 0.02 s
CutoffAt(i) ==
    \/ ~HasTime(align_csv[i].end)
    \/ ~HasTime(align_csv[i].start)
    \/ align_csv[i].end.v - align_csv[i].start.v < cutoff_min_dur

\* C12: the Cutoff detector emits exactly one Cutoff at wordIndex = i for each
\* word whose end is missing, whose start is missing or whose end - start is
\* < 0.02 s, and none for a word with both timings and end - start >= 0.02 s.
C12_CutoffExactly ==
    Detected =>
        /\ \A h \in 1..Len(CutoffEvents) :
              /\ CutoffEvents[h].word_idx.v \in 0..(NWords - 1)
              /\ CutoffEvents[h].token = TokCutoff
        /\ \A i \in 1..NWords :
              IndexCount(CutoffEvents, i - 1) = IF CutoffAt(i) THEN 1 ELSE 0

\* a word of exactly 0.02 s that gave no Cutoff before a word of 0.01 s that
\* gave the only one
C12_Witness ==
    /\ Detected
    /\ NWords = 2
    /\ HasTime(align_csv[1].start) /\ HasTime(align_csv[1].end)
    /\ align_csv[1].end.v - align_csv[1].start.v = cutoff_min_dur
    /\ HasTime(align_csv[2].start) /\ HasTime(align_csv[2].end)
    /\ align_csv[2].end.v - align_csv[2].start.v = cutoff_min_dur - 1
    /\ Len(CutoffEvents) = 1
    /\ CutoffEvents[1].word_idx = Num(1)

TremorEvents == OfType(events, "tremor")

\* the prosody row of key k (0-based) has a jitter that is present, non-zero
\* and >= the threshold
TremorAt(k) ==
    LET cell == prosody_csv.rows[k + 1].jitter_approx
    IN cell.k = "num" /\ cell.v # 0 /\ cell.v >= jitter_thresh

\* C13: the Tremor detector emits a Tremor at wordIndex = k exactly for the
\* keys k of the prosody collection whose jitter is present, non-zero and
\* >= jitterThreshold; a zero, absent or below-threshold jitter gives none.
C13_TremorExactly ==
    Detected =>
        /\ \A h \in 1..Len(TremorEvents) :
              /\ TremorEvents[h].word_idx.v \in 0..(Len(ProsodyRows) - 1)
              /\ TremorEvents[h].token = TokTremor
        /\ \A k \in 0..(Len(ProsodyRows) - 1) :
              IndexCount(TremorEvents, k) = IF TremorAt(k) THEN 1 ELSE 0

\* three prosody rows: a jitter of zero, one just below the threshold and one
\* exactly at it, the last giving the only Tremor
C13_Witness ==
    /\ Detected
    /\ Len(ProsodyRows) = 3
    /\ ProsodyRows[1].jitter_approx = Cell(0)
    /\ ProsodyRows[2].jitter_approx = Cell(jitter_thresh - 1)
    /\ ProsodyRows[3].jitter_approx = Cell(jitter_thresh)
    /\ Len(TremorEvents) = 1
    /\ TremorEvents[1].word_idx = Num(2)

\* the index an event is anchored at: insert_after_word_idx for a Pause,
\* word_idx for any other event
AnchorIndex(e) == IF e.type = "pause" THEN e.insert_after_word_idx ELSE e.word_idx

\* C14: every word-anchored event of the merged list carries an index i with
\* 0 <= i < number of Words (a Pause by its insertAfterWordIndex unless that
\* is none), also for a prosody collection longer than the Word sequence and
\* for an empty Word sequence.
C14_ValidIndices ==
    Detected =>
        \A h \in 1..Len(events_sorted) :
            LET a == AnchorIndex(events_sorted[h])
            IN a = None \/ (IsNum(a) /\ a.v \in 0..(NWords - 1))

Reconstructed == pc \in {"annotated", "exported"}

TokensOf(evs) == [h \in 1..Len(evs) |-> evs[h].token]

NonEmpty(texts) == SelectSeq(texts, LAMBDA x : x # <<>>)

\* the tokens of the merged events that go before word i (0-based), in merged
\* order: Filler, Stutter and Repeat by wordIndex
BeforeTokens(i) ==
    TokensOf(SelectSeq(events_sorted,
        LAMBDA e : e.type \in {"filler", "stutter", "repeat_word"} /\ e.word_idx = Num(i)))

\* those that go after it: Pause by insertAfterWordIndex, Cutoff and Tremor
\* by wordIndex
AfterTokens(i) ==
    TokensOf(SelectSeq(events_sorted,
        LAMBDA e : \/ e.type = "pause" /\ e.insert_after_word_idx = Num(i)
                   \/ e.type \in {"cutoff", "tremor"} /\ e.word_idx = Num(i)))

\* C15: in the transcript the tokens of the Filler, Stutter and Repeat events
\* anchored at word i come immediately before word i's text, those of Pause
\* (by insertAfterWordIndex), Cutoff and Tremor immediately after it, each
\* bucket in the order of the merged event list.
C15_TokenPlacement ==
    Reconstructed =>
        /\ Len(AllItems(lines)) = NWords
        /\ \A i \in 1..NWords :
              piece_texts(AllItems(lines)[i]) =
                 NonEmpty(BeforeTokens(i - 1) \o <<align_csv[i].word>> \o AfterTokens(i - 1))

\* a word with two tokens before it and one with a Cutoff, a Tremor and then a
\* Pause after it, the merged order of the three not being the detector order
C15_Witness ==
    /\ pc = "annotated"
    /\ \E i \in 1..NWords : Len(BeforeTokens(i - 1)) = 2
    /\ \E i \in 1..NWords :
          /\ align_csv[i].word # <<>>
          /\ Len(AfterTokens(i - 1)) = 3
          /\ AfterTokens(i - 1)[1] = TokCutoff
          /\ AfterTokens(i - 1)[2] = TokTremor
          /\ item_text(AllItems(lines)[i]) =
                join(<<" ">>, BeforeTokens(i - 1) \o <<align_csv[i].word>> \o AfterTokens(i - 1))

\* the position among the words of the first word of line l
FirstWordOf(l) == Len(AllItems(SubSeq(lines, 1, l - 1))) + 1

LineStarts == {FirstWordOf(l) : l \in 1..Len(lines)}

\* the times the reconstructor compares: a missing start is 0.0, a missing
\* end is the start + 0.05 s
WordStart(i) == StartOrZero(i)
WordEnd(i) == IF IsNum(Words[i].end) /\ Words[i].end.v # 0 THEN Words[i].end.v
              ELSE WordStart(i) + default_word_dur

\* a non-speech segment of >= 0.6 s lies between the end of word i-1 and the
\* start of word i (1-based, i >= 2)
LongPauseBefore(i) ==
    \E j \in 1..Len(VadSegments) :
        /\ ~VadSegments[j].is_speech
        /\ VadSegments[j].end - VadSegments[j].start >= long_pause
        /\ VadSegments[j].start >= WordEnd(i - 1)
        /\ VadSegments[j].end <= WordStart(i)

\* C16: when a non-speech segment of >= 0.6 s lies between the previous
\* word's end and the current word's start, the line is committed before the
\* current word is appended: the current word is the first word of a line.
C16_BreakBeforeWord ==
    Reconstructed =>
        \A i \in 2..NWords : LongPauseBefore(i) => i \in LineStarts

\* the header "[sss.ss] " of a line that starts at t
HeaderAt(t) == <<"[">> \o fmt_06_2f(t) \o <<"]", " ">>

\* C17: each line's header is derived from the start of the first word on
\* the line, and a line whose first word has no start gets no header.
C17_HeaderFromFirstWord ==
    Reconstructed =>
        \A l \in 1..Len(lines) :
            lines[l].header =
                IF IsNum(Words[FirstWordOf(l)].start)
                THEN HeaderAt(Words[FirstWordOf(l)].start.v)
                ELSE <<>>

\* C18: the transcript has no line without a word: an empty Word sequence
\* gives zero lines whatever events and segments there are, every line holds
\* at least one word, and there are never more lines than words.
C18_NoEmptyLine ==
    Reconstructed =>
        /\ NWords = 0 => lines = <<>>
        /\ \A l \in 1..Len(lines) : Len(lines[l].items) >= 1
        /\ Len(lines) <= NWords

\* no Words, but a long Pause and Tremors in the merged list: no line
C18_Witness ==
    /\ pc = "annotated"
    /\ NWords = 0
    /\ \E h \in 1..Len(events_sorted) :
          events_sorted[h].type = "pause" /\ events_sorted[h].duration.v >= long_pause
    /\ \E h \in 1..Len(events_sorted) : events_sorted[h].type = "tremor"
    /\ lines = <<>>

\* the tokens of the annotated file, as the exporter reads them
ExportTokens == flatten_tokens(load_annotated_lines(annotated_file(lines)))

\* the timestamps the exporter gives them, in token order
ExportTimes ==
    LET a == token_assignments(load_annotated_lines(annotated_file(lines)),
                               build_token_to_start_map(ml_load_alignment(align_csv)))
    IN [j \in 1..Len(a) |-> a[j].t]

\* the start of word wi (1-based) as the exporter loads it, 0.0 when missing
ExportStart(wi) == or_zero_opt(ml_parse_start(align_csv[wi].start))

\* The greedy two-cursor procedure: ti is the token cursor, wi the word
\* cursor, last the timestamp of the most recently matched token (None while
\* no token matched).
RECURSIVE GreedyTimes(_, _, _, _, _)
GreedyTimes(toks, ti, wi, last, acc) ==
    IF ti > Len(toks) THEN acc
    ELSE IF wi <= NWords /\ clean(toks[ti]) = clean(align_csv[wi].word)
         THEN GreedyTimes(toks, ti + 1, wi + 1, ExportStart(wi),
                          Append(acc, ExportStart(wi)))
         ELSE GreedyTimes(toks, ti + 1, wi, last,
                          Append(acc, IF last # None THEN last
                                      ELSE IF wi <= NWords THEN ExportStart(wi)
                                      ELSE Num(0)))

\* C19: the exporter's timestamps are those of the greedy two-cursor
\* procedure: a token whose normalized form equals the next unmatched word's
\* gets that word's start and both cursors advance; any other token gets the
\* timestamp of the most recently matched token (or, none having matched,
\* the next word's start, or 0.0) and only the token cursor advances.
C19_GreedyTimestamps ==
    pc = "exported" => ExportTimes = GreedyTimes(ExportTokens, 1, 1, None, <<>>)

\* the total duration the exporter computes
TotalDuration == estimate_total_duration(ml_load_alignment(align_csv))

\* the last word's end when it has one, otherwise its start when it has one,
\* otherwise 1.0 s
LastWordTime ==
    LET r == align_csv[NWords]
    IN IF HasTime(r.end) THEN r.end.v
       ELSE IF HasTime(r.start) THEN r.start.v
       ELSE min_total_dur

\* C20: the exporter's total duration is the last word's end when the last
\* word has an end, otherwise the last word's start when it has a start,
\* otherwise 1.0; read with the floor of 1.0 s of the spec's max(...).
C20_TotalDuration ==
    (pc = "exported" /\ NWords >= 1) =>
        TotalDuration = IF LastWordTime > min_total_dur THEN LastWordTime ELSE min_total_dur

\* the slice of the claim for a timestamp t in [0, D]: the i with
\* i*D/N <= t < (i+1)*D/N, the last slice taking t = D as well
ExactSlice(t, D, n) ==
    CHOOSE i \in 0..(n - 1) :
        /\ i * D <= t * n
        /\ (t * n < (i + 1) * D \/ (i = n - 1 /\ t <= D))

\* every token's timestamp is a number in [0, D]
TimesInRange ==
    \A j \in 1..Len(ExportTimes) :
        IsNum(ExportTimes[j]) /\ ExportTimes[j].v >= 0 /\ ExportTimes[j].v <= TotalDuration

\* the tokens whose timestamp the claim places in slice i (0-based), in order
ExactSliceTokens(i) ==
    LET idx == SelectSeq([j \in 1..Len(ExportTokens) |-> j],
                         LAMBDA j : ExactSlice(ExportTimes[j].v, TotalDuration, n_slices) = i)
    IN [h \in 1..Len(idx) |-> ExportTokens[idx[h]]]

\* C21: with total duration D and N slices, a token with timestamp t in
\* [0, D] is placed in the slice i with i*D/N <= t < (i+1)*D/N, the last slice
\* being closed at D: line i of the export holds exactly those tokens.
C21_SlicePlacement ==
    (pc = "exported" /\ NWords >= 1 /\ TimesInRange) =>
        /\ Len(ExportedLines) = n_slices
        /\ \A i \in 0..(n_slices - 1) :
              split_ws(ExportedLines[i + 1]) = ExactSliceTokens(i)

\* the events of the four detectors that read the Word sequence only
WordDetectorEvents(evs) == SelectSeq(evs, LAMBDA e : e.type \notin {"pause", "tremor"})

\* the sorted event list of a run over the same Words with the VAD file V and
\* the prosody file P
RunWith(V, P) ==
    sorted_events(detect_all(Words, load_vad(V), load_prosody(P)), Words)

\* VAD and prosody files that are present
PresentVad == {File(<<Seg(70, 85, FALSE)>>), File(<<Seg(70, 130, TRUE), Seg(70, 85, FALSE)>>)}
PresentProsody == {File(<<Jitter(Cell(15)), Jitter(Cell(20))>>)}

\* C22: with the VAD input absent the detector stage completes with no Pause
\* event, with the Prosody input absent it completes with no Tremor event, and
\* the events of the other detectors are those of a run with the inputs present.
C22_AbsentInputs ==
    (pc = "events") =>
        /\ ~vad_csv.exists => OfType(events_sorted, "pause") = <<>>
        /\ ~prosody_csv.exists => OfType(events_sorted, "tremor") = <<>>
        /\ (~vad_csv.exists \/ ~prosody_csv.exists) =>
              \A V \in PresentVad \cup {vad_csv} : \A P \in PresentProsody \cup {prosody_csv} :
                 WordDetectorEvents(events_sorted) = WordDetectorEvents(RunWith(V, P))

\* both inputs absent, a filler Word: the stage ends with its Filler,
\* while a run with the inputs present has a Pause and a Tremor as well
C22_Witness ==
    /\ pc = "events"
    /\ ~vad_csv.exists /\ ~prosody_csv.exists
    /\ OfType(events_sorted, "filler") # <<>>
    /\ OfType(events_sorted, "pause") = <<>>
    /\ OfType(events_sorted, "tremor") = <<>>
    /\ \E V \in PresentVad : \E P \in PresentProsody :
          /\ OfType(RunWith(V, P), "pause") # <<>>
          /\ OfType(RunWith(V, P), "tremor") # <<>>

\* no Word has a start or an end
AllTimesMissing ==
    \A i \in 1..NWords : ~IsNum(Words[i].start) /\ ~IsNum(Words[i].end)

\* C23: the merger, the reconstructor and the exporter never raise: whatever
\* starts and ends are missing, and for every event list and VoiceSegment
\* list, no stage ends in the failed state, so each one writes its output.
C23_NeverRaises == pc # "failed"

\* two Words without any start or end, events of three kinds and a VAD file
\* with a long non-speech segment went through all three stages
C23_Witness ==
    /\ pc = "exported"
    /\ NWords = 2
    /\ AllTimesMissing
    /\ OfType(events_sorted, "pause") # <<>>
    /\ OfType(events_sorted, "cutoff") # <<>>
    /\ OfType(events_sorted, "tremor") # <<>>
    /\ lines # <<>>
    /\ newlines(ml_file) # {}

NFrames == Len(speech_flags)
NSegments == Len(segments)

\* a and b differ by less than half a millisecond
SameMillisecond(a, b) == a - b < 5 /\ b - a < 5

\* C24: the segment list built from the frame flags is ordered, contiguous
\* (each segment starts where the previous one ends), non-overlapping, spans
\* from the first frame's start to the last frame's end and alternates
\* is_speech; no frames give no segments.
C24_SegmentList ==
    (pc = "vad") =>
        /\ NFrames = 0 => segments = <<>>
        /\ NFrames > 0 =>
              /\ NSegments > 0
              /\ SameMillisecond(segments[1].start, speech_flags[1].s)
              /\ SameMillisecond(segments[NSegments].end, speech_flags[NFrames].e)
              /\ \A j \in 1..NSegments : segments[j].start < segments[j].end
              /\ \A j \in 1..(NSegments - 1) :
                    /\ segments[j + 1].start = segments[j].end
                    /\ segments[j + 1].is_speech # segments[j].is_speech

\* four frames, speech, speech, silence, speech, whose float sums are all
\* off: three segments, the first one two frames long
C24_Witness ==
    /\ pc = "vad"
    /\ NFrames = 4
    /\ \A k \in 1..NFrames : speech_flags[k].e # k * frame_len
    /\ speech_flags[1].flag /\ speech_flags[2].flag
    /\ ~speech_flags[3].flag /\ speech_flags[4].flag
    /\ NSegments = 3
    /\ segments[1].end = 2 * frame_len

\* how many times e occurs in the list evs
Occurrences(evs, e) == Cardinality({i \in 1..Len(evs) : evs[i] = e})

\* the sort time of e is +infinity
InfiniteKey(e) == ~IsNum(sort_key(e, Words).t)

\* C25: the merged event list is a permutation of the concatenation of the
\* six detectors' outputs: every event occurs in it as often as in the
\* concatenation, those whose sort time is +infinity included.
C25_MergePermutation ==
    Detected =>
        /\ Len(events_sorted) = Len(events)
        /\ \A i \in 1..Len(events) :
              Occurrences(events_sorted, events[i]) = Occurrences(events, events[i])

\* a merge that moved events: a Tremor past the end of the Words and so of
\* time +infinity, a Pause, and a merged list in another order than the
\* concatenation
C25_Witness ==
    /\ Detected
    /\ events_sorted # events
    /\ \E i \in 1..Len(events) : events[i].type = "tremor" /\ InfiniteKey(events[i])
    /\ \E i \in 1..Len(events) : events[i].type = "pause"
    /\ \E i \in 1..Len(events) : events[i].type = "filler" /\ ~InfiniteKey(events[i])

\* the pieces of a sequence of items, in order
RECURSIVE PiecesOf(_)
PiecesOf(items) == IF items = <<>> THEN <<>> ELSE Head(items) \o PiecesOf(Tail(items))

\* the event tokens the transcript holds, in transcript order
RenderedTokens ==
    piece_texts(SelectSeq(PiecesOf(AllItems(lines)), LAMBDA t : t.src # "word"))

\* C26: every event of the list given to the reconstructor has its token
\* rendered exactly once: the transcript holds each token as often as the
\* event list does, and no other.
C26_EveryTokenRendered ==
    Reconstructed =>
        /\ Len(RenderedTokens) = Len(events_sorted)
        /\ \A h \in 1..Len(events_sorted) :
              Occurrences(RenderedTokens, events_sorted[h].token)
                 = Occurrences(TokensOf(events_sorted), events_sorted[h].token)

\* the tokens of every line of the export, slice by slice
Slices == [i \in 1..Len(ExportedLines) |-> split_ws(ExportedLines[i])]

RECURSIVE Concat(_)
Concat(seqs) == IF seqs = <<>> THEN <<>> ELSE Head(seqs) \o Concat(Tail(seqs))

\* a is b with some elements left out
RECURSIVE IsSubseq(_, _)
IsSubseq(a, b) ==
    IF a = <<>> THEN TRUE
    ELSE IF b = <<>> THEN FALSE
    ELSE IF Head(a) = Head(b) THEN IsSubseq(Tail(a), Tail(b))
    ELSE IsSubseq(a, Tail(b))

\* the timestamp t lies outside [0, D]
OutOfRange(t, D) == ~IsNum(t) \/ t.v < 0 \/ t.v > D

\* the tokens whose timestamp is out of range, in order
OutOfRangeTokens(toks, times, D) ==
    LET idx == SelectSeq([j \in 1..Len(toks) |-> j], LAMBDA j : OutOfRange(times[j], D))
    IN [h \in 1..Len(idx) |-> toks[idx[h]]]

NonDecreasing(times) ==
    \A j \in 1..(Len(times) - 1) :
        IsNum(times[j]) /\ IsNum(times[j + 1]) /\ times[j].v <= times[j + 1].v

LineTagged(ln) ==
    (IF ln.header = <<>> THEN <<>> ELSE tag("header", <<strip(ln.header)>>))
    \o PiecesOf(ln.items)

\* those of the whole transcript, in order
RECURSIVE Tagged(_)
Tagged(ls) == IF ls = <<>> THEN <<>> ELSE LineTagged(Head(ls)) \o Tagged(Tail(ls))

\* the position in the flattened token sequence of the token rendered from
\* word k (1-based)
WordTokenIndex(tagged, k) ==
    CHOOSE j \in 1..Len(tagged) :
        /\ tagged[j].src = "word"
        /\ Cardinality({h \in 1..j : tagged[h].src = "word"}) = k

\* every Word text is free of whitespace and has an alphanumeric character
PlainWords ==
    \A k \in 1..NWords :
        /\ \A h \in 1..Len(align_csv[k].word) : ~is_space(align_csv[k].word[h])
        /\ \E h \in 1..Len(align_csv[k].word) : isalnum(align_csv[k].word[h])

\* C28: on the reconstructor's transcript of Words with plain texts, the
\* token rendered from word k is assigned word k's start whenever that start
\* is known, for every k: a word with a missing start before it, a marker or
\* a header does not shift it.
C28_WordGetsOwnStart ==
    (pc = "exported" /\ NWords >= 1 /\ PlainWords) =>
        LET tagged == Tagged(lines)
            times == ExportTimes
        IN /\ piece_texts(tagged) = ExportTokens
           /\ \A k \in 1..NWords :
                 HasTime(align_csv[k].start) =>
                    times[WordTokenIndex(tagged, k)] = Num(align_csv[k].start.v)

====
